---- MODULE Spec2Model ----
(***************************************************************************)
(* Model of scripts/crawl_github.py: the catalog merger (_merge_projects), *)
(* the project builder (_make_project, _build_dir, _slugify,               *)
(* _is_valid_dir) and the orchestrator (main, collect).                    *)
(*                                                                         *)
(* Python strings are modelled as sequences of one-character strings, so   *)
(* that strip, split, the regular expressions and the f-string that builds *)
(* "<base>-<i>" are computed, not assumed.  A project record (a Python     *)
(* dict) is a function whose DOMAIN is the set of keys present.            *)
(***************************************************************************)
EXTENDS Integers, Sequences, FiniteSets, TLC

\* ------------------------------------------------------------------------
\* Characters and string helpers
\* ------------------------------------------------------------------------

UpperChars == {"A","B","C","D","E","F","G","H","I","J","K","L","M",
               "N","O","P","Q","R","S","T","U","V","W","X","Y","Z"}

LowerChars == {"a","b","c","d","e","f","g","h","i","j","k","l","m",
               "n","o","p","q","r","s","t","u","v","w","x","y","z"}

DigitChars == {"0","1","2","3","4","5","6","7","8","9"}

AlnumChars == UpperChars \cup LowerChars \cup DigitChars

\* the characters c of U+0000..U+00FF with c.isspace(), which str.strip()
\* removes: \t \n \x0b \x0c \r \x1c \x1d \x1e \x1f space \x85 \xa0
WhitespaceChars == {"\t", "\n", "", "\f", "\r", "", "", "",
                    "", " ", "", " "}

UpperSeq == <<"A","B","C","D","E","F","G","H","I","J","K","L","M",
              "N","O","P","Q","R","S","T","U","V","W","X","Y","Z">>

LowerSeq == <<"a","b","c","d","e","f","g","h","i","j","k","l","m",
              "n","o","p","q","r","s","t","u","v","w","x","y","z">>

\* the cased characters of U+00C0..U+00DE (all but the multiplication sign)
Latin1Upper == <<"À","Á","Â","Ã","Ä","Å","Æ","Ç","È","É","Ê","Ë","Ì",
                 "Í","Î","Ï","Ð","Ñ","Ò","Ó","Ô","Õ","Ö","Ø","Ù","Ú",
                 "Û","Ü","Ý","Þ">>

\* their lower-case forms, U+00E0..U+00FE
Latin1Lower == <<"à","á","â","ã","ä","å","æ","ç","è","é","ê","ë","ì",
                 "í","î","ï","ð","ñ","ò","ó","ô","õ","ö","ø","ù","ú",
                 "û","ü","ý","þ">>

\* the characters of U+0000..U+00FF that str.lower() changes, and what it
\* makes of them
CasedUpper == UpperSeq \o Latin1Upper
CasedLower == LowerSeq \o Latin1Lower
CasedUpperChars == {CasedUpper[i] : i \in 1..Len(CasedUpper)}

\* str.lower() on one character of U+0000..U+00FF
LowerChar(c) ==
    IF c \in CasedUpperChars
    THEN CasedLower[CHOOSE i \in 1..Len(CasedUpper) : CasedUpper[i] = c]
    ELSE c

\* str.lower()
Lower(s) == [i \in 1..Len(s) |-> LowerChar(s[i])]

RECURSIVE LStripSet(_, _)
\* str.lstrip(chars)
LStripSet(s, chars) ==
    IF s # <<>> /\ Head(s) \in chars THEN LStripSet(Tail(s), chars) ELSE s

RECURSIVE RStripSet(_, _)
\* str.rstrip(chars)
RStripSet(s, chars) ==
    IF s # <<>> /\ s[Len(s)] \in chars
    THEN RStripSet(SubSeq(s, 1, Len(s) - 1), chars)
    ELSE s

\* str.strip(chars)
StripSet(s, chars) == RStripSet(LStripSet(s, chars), chars)

\* str.strip()
Strip(s) == StripSet(s, WhitespaceChars)

RECURSIVE LastSegment(_)
\* s.split("/")[-1]: what follows the last "/" (all of s when it has none)
LastSegment(s) ==
    IF s = <<>> THEN <<>>
    ELSE IF s[Len(s)] = "/" THEN <<>>
    ELSE Append(LastSegment(SubSeq(s, 1, Len(s) - 1)), s[Len(s)])

RECURSIVE SubRuns(_, _, _)
\* re.sub(r"[^keep]+", "-", s): every maximal run of characters outside `keep`
\* becomes one "-"; inrun says the previous character was in such a run
SubRuns(s, keep, inrun) ==
    IF s = <<>> THEN <<>>
    ELSE IF Head(s) \in keep THEN <<Head(s)>> \o SubRuns(Tail(s), keep, FALSE)
    ELSE IF inrun THEN SubRuns(Tail(s), keep, TRUE)
    ELSE <<"-">> \o SubRuns(Tail(s), keep, TRUE)

RECURSIVE CollapseHyphens(_)
\* re.sub(r"-{2,}", "-", s)
CollapseHyphens(s) ==
    IF Len(s) < 2 THEN s
    ELSE IF s[1] = "-" /\ s[2] = "-" THEN CollapseHyphens(Tail(s))
    ELSE <<Head(s)>> \o CollapseHyphens(Tail(s))

\* _slugify
slugify(s) ==
    StripSet(CollapseHyphens(SubRuns(Lower(Strip(s)),
                                     LowerChars \cup DigitChars, FALSE)),
             {"-"})

DirChars == AlnumChars \cup {"_", "-"}

\* _DIR_RE.match(s): ^[A-Za-z0-9][A-Za-z0-9_-]*$ ; Python's "$" also matches
\* just before a trailing newline
DirReMatch(s) ==
    /\ s # <<>>
    /\ s[1] \in AlnumChars
    /\ LET body == IF s[Len(s)] = "\n" THEN SubSeq(s, 1, Len(s) - 1) ELSE s
       IN  \A i \in 1..Len(body) : body[i] \in DirChars

\* _is_valid_dir
is_valid_dir(s) == s # <<>> /\ DirReMatch(s)

RECURSIVE Decimal(_)
\* str(i) of a non-negative integer, as the f-string formats it
Decimal(i) ==
    LET d == <<"0","1","2","3","4","5","6","7","8","9">>[(i % 10) + 1]
    IN  IF i < 10 THEN <<d>> ELSE Append(Decimal(i \div 10), d)

\* ------------------------------------------------------------------------
\* Project records (dicts)
\* ------------------------------------------------------------------------

FillKeys == <<"version", "typecho", "author", "donate", "description",
              "name", "type">>

\* k in r
Has(r, k) == k \in DOMAIN r

\* bool(r.get(k)) for a string-valued key
Truthy(r, k) == Has(r, k) /\ r[k] # <<>>

\* str(r.get(k) or "")
GetStr(r, k) == IF Truthy(r, k) THEN r[k] ELSE <<>>

\* r[k] = v on a dict
SetKey(r, k, v) == [x \in DOMAIN r \cup {k} |-> IF x = k THEN v ELSE r[x]]

\* ------------------------------------------------------------------------
\* _merge_projects
\* ------------------------------------------------------------------------

\* a by_link keyed by the links as stored, not stripped
InitByLinkRaw(existing) ==
    LET idx == {i \in 1..Len(existing) : Truthy(existing[i], "link")}
        links == {existing[i]["link"] : i \in idx}
    IN  [l \in links |->
           CHOOSE i \in idx :
             /\ existing[i]["link"] = l
             /\ \A j \in idx : existing[j]["link"] = l => j <= i]

\* by_link after the first loop: stripped link -> position of the record (the
\* last existing record with that link wins)
InitByLink(existing) ==
    LET idx == {i \in 1..Len(existing) : Truthy(existing[i], "link")}
        links == {Strip(existing[i]["link"]) : i \in idx}
    IN  [l \in links |->
           CHOOSE i \in idx :
             /\ Strip(existing[i]["link"]) = l
             /\ \A j \in idx : Strip(existing[j]["link"]) = l => j <= i]

\* used_ids before the main loop
InitUsedIds(existing) ==
    {existing[i]["id"] : i \in {j \in 1..Len(existing) : Truthy(existing[j], "id")}}

RECURSIVE NextFree(_, _, _)
\* the while loop of unique_id
NextFree(base, i, used_ids) ==
    IF (base \o <<"-">> \o Decimal(i)) \in used_ids
    THEN NextFree(base, i + 1, used_ids)
    ELSE base \o <<"-">> \o Decimal(i)

\* unique_id: the id returned (the caller adds it to used_ids)
unique_id(base, used_ids) ==
    IF base \notin used_ids THEN base ELSE NextFree(base, 2, used_ids)

\* a directory correction that forgets to validate the incoming dir
MergeDirUnchecked(cur, inc) ==
    IF /\ Truthy(inc, "dir")
       /\ \/ ~Truthy(cur, "dir")
          \/ cur["dir"] = LastSegment(GetStr(cur, "link"))
    THEN SetKey(cur, "dir", inc["dir"])
    ELSE IF Truthy(inc, "dir") /\ GetStr(cur, "dir") # inc["dir"]
    THEN SetKey(cur, "dir", inc["dir"])
    ELSE cur

\* the dir of cur after the if/elif of lines 311-314
MergeDir(cur, inc) ==
    IF /\ Truthy(inc, "dir")
       /\ \/ ~Truthy(cur, "dir")
          \/ cur["dir"] = LastSegment(GetStr(cur, "link"))
    THEN SetKey(cur, "dir", inc["dir"])
    ELSE IF /\ Truthy(inc, "dir")
            /\ GetStr(cur, "dir") # inc["dir"]
            /\ is_valid_dir(inc["dir"])
    THEN SetKey(cur, "dir", inc["dir"])
    ELSE cur

RECURSIVE MergeFillOverwrite(_, _, _)
\* a fill loop that copies every non-blank incoming value
MergeFillOverwrite(cur, inc, n) ==
    IF n > Len(FillKeys) THEN cur
    ELSE LET k == FillKeys[n]
         IN  IF Truthy(inc, k)
             THEN MergeFillOverwrite(SetKey(cur, k, inc[k]), inc, n + 1)
             ELSE MergeFillOverwrite(cur, inc, n + 1)

RECURSIVE MergeFill(_, _, _)
\* the loop over the seven fill-in keys, from key number n on
MergeFill(cur, inc, n) ==
    IF n > Len(FillKeys) THEN cur
    ELSE LET k == FillKeys[n]
         IN  IF ~Truthy(cur, k) /\ Truthy(inc, k)
             THEN MergeFill(SetKey(cur, k, inc[k]), inc, n + 1)
             ELSE MergeFill(cur, inc, n + 1)

\* the two flag defaults
MergeFlags(cur) ==
    LET c1 == IF Has(cur, "isGithub") THEN cur ELSE SetKey(cur, "isGithub", TRUE)
    IN  IF Has(c1, "direct") THEN c1 ELSE SetKey(c1, "direct", TRUE)

\* the update branch (link in by_link)
MergeUpdate(cur, inc) == MergeFlags(MergeFill(MergeDir(cur, inc), inc, 1))

\* a by_link that is never extended: a later candidate with the same link is
\* appended again
RegisterNothing(by_link, link, pos) == by_link

\* by_link[link] = inc2, the record appended at position pos
Register(by_link, link, pos) ==
    [l \in DOMAIN by_link \cup {link} |-> IF l = link THEN pos ELSE by_link[l]]

RECURSIVE MergeLoop(_, _, _, _, _)
\* the loop over incoming, from candidate number j on
MergeLoop(out, by_link, used_ids, incoming, j) ==
    IF j > Len(incoming) THEN out
    ELSE
      LET inc == incoming[j]
          link == Strip(GetStr(inc, "link"))
      IN  IF link = <<>>
          THEN MergeLoop(out, by_link, used_ids, incoming, j + 1)
          ELSE IF link \in DOMAIN by_link
          THEN MergeLoop([out EXCEPT ![by_link[link]] = MergeUpdate(@, inc)],
                         by_link, used_ids, incoming, j + 1)
          ELSE
            LET id == unique_id(GetStr(inc, "id"), used_ids)
                inc2 == SetKey(inc, "id", id)
            IN  MergeLoop(Append(out, inc2),
                          Register(by_link, link, Len(out) + 1),
                          used_ids \cup {id}, incoming, j + 1)

\* _merge_projects(existing, incoming)
merge_projects(existing, incoming) ==
    MergeLoop(existing, InitByLink(existing), InitUsedIds(existing), incoming, 1)

\* ------------------------------------------------------------------------
\* The project builder: _derive_display_name, _clean_version, _build_dir,
\* _make_project
\* ------------------------------------------------------------------------

KindPlugin == <<"p","l","u","g","i","n">>
KindTheme  == <<"t","h","e","m","e">>
Typecho    == <<"t","y","p","e","c","h","o">>

\* s.startswith(p)
StartsWith(s, p) == Len(s) >= Len(p) /\ SubSeq(s, 1, Len(p)) = p

\* s[n:]
Drop(s, n) == SubSeq(s, n + 1, Len(s))

\* re.sub(r"(?i)^typecho[-_]?<kind>[-_]+", "", name)
StripKindPrefix(name, kind) ==
    LET low == Lower(name)
        r1 == Drop(low, Len(Typecho))
        n1 == Len(Typecho) + (IF r1 # <<>> /\ r1[1] \in {"-", "_"} THEN 1 ELSE 0)
        r2 == Drop(low, n1)
        r3 == Drop(low, n1 + Len(kind))
    IN  IF /\ StartsWith(low, Typecho)
           /\ StartsWith(r2, kind)
           /\ r3 # <<>>
           /\ r3[1] \in {"-", "_"}
        THEN LStripSet(Drop(name, n1 + Len(kind)), {"-", "_"})
        ELSE name

\* _derive_display_name
derive_display_name(repo_name, kind) ==
    LET name == Strip(repo_name)
        cut == IF kind \in {KindPlugin, KindTheme}
               THEN StripKindPrefix(name, kind)
               ELSE name
    IN  IF Strip(cut) # <<>> THEN Strip(cut) ELSE repo_name

RECURSIVE DigitRunEnd(_, _)
\* the last position of the run of digits that starts at position i
DigitRunEnd(s, i) ==
    IF i < Len(s) /\ s[i + 1] \in DigitChars THEN DigitRunEnd(s, i + 1) ELSE i

\* \d+\.\d+ matches at position i
VersionAt(s, i) ==
    /\ s[i] \in DigitChars
    /\ LET e == DigitRunEnd(s, i)
       IN  e + 2 <= Len(s) /\ s[e + 1] = "." /\ s[e + 2] \in DigitChars

\* the match of (\d+\.\d+(?:\.\d+)?) that starts at position i
VersionFrom(s, i) ==
    LET e1 == DigitRunEnd(s, i)
        e2 == DigitRunEnd(s, e1 + 2)
        e3 == IF e2 + 2 <= Len(s) /\ s[e2 + 1] = "." /\ s[e2 + 2] \in DigitChars
              THEN DigitRunEnd(s, e2 + 2)
              ELSE e2
    IN  SubSeq(s, i, e3)

VersionChars == AlnumChars \cup {".", "+", "-"}

\* _clean_version
clean_version(raw) ==
    LET v == Strip(raw)
        starts == {i \in 1..Len(v) : VersionAt(v, i)}
        first == CHOOSE i \in starts : \A j \in starts : i <= j
        dotted == LET t == LStripSet(v, {"v", "V"})
                  IN  [i \in 1..Len(t) |-> IF t[i] = "_" THEN "." ELSE t[i]]
    IN  IF v = <<>> THEN <<>>
        ELSE IF starts # {} THEN VersionFrom(v, first)
        ELSE SelectSeq(dotted, LAMBDA c : c \in VersionChars)

\* re.sub(r"[^A-Za-z0-9_-]+", "-", s).strip("-")
Sanitize(s) == StripSet(SubRuns(s, DirChars, FALSE), {"-"})

\* _build_dir
build_dir(kind, repo_name, package, class_prefix) ==
    LET derived == derive_display_name(repo_name, kind)
    IN  IF is_valid_dir(Strip(package)) THEN Strip(package)
        ELSE IF is_valid_dir(class_prefix) THEN class_prefix
        ELSE IF is_valid_dir(derived) THEN derived
        ELSE IF is_valid_dir(Sanitize(derived)) THEN Sanitize(derived)
        ELSE IF is_valid_dir(Sanitize(repo_name)) THEN Sanitize(repo_name)
        ELSE <<>>

\* the display name above which the package tag is preferred
NameMax == 40

GithubUrl == <<"h","t","t","p","s",":","/","/","g","i","t","h","u","b",".",
               "c","o","m","/">>
HttpUrl   == <<"h","t","t","p",":","/","/">>
HttpsUrl  == <<"h","t","t","p","s",":","/","/">>

\* x or y on strings
OrElse(x, y) == IF x # <<>> THEN x ELSE y

\* _make_project(kind, gr, file_text); file is what the docblock parser and
\* _extract_class_prefix read off the text: package, author, version, link,
\* description, class_prefix
make_project(kind, gr, file) ==
    LET class_prefix == IF kind = KindPlugin THEN file.class_prefix ELSE <<>>
        install_dir == build_dir(kind, gr.repo, file.package, class_prefix)
        derived == derive_display_name(gr.repo, kind)
        display_name == IF file.package # <<>> /\ Len(derived) > NameMax
                        THEN file.package ELSE derived
        link == Strip(file.link)
        donate1 == IF link # <<>> /\ ~StartsWith(Lower(link), GithubUrl)
                   THEN link ELSE <<>>
        donate == IF /\ donate1 = <<>>
                     /\ gr.homepage # <<>>
                     /\ \/ StartsWith(Lower(gr.homepage), HttpUrl)
                        \/ StartsWith(Lower(gr.homepage), HttpsUrl)
                  THEN gr.homepage ELSE donate1
        slug == OrElse(slugify(OrElse(install_dir, gr.repo)),
                       slugify(gr.owner \o <<"-">> \o gr.repo))
    IN  [id |-> kind \o <<"-">> \o slug,
         name |-> display_name,
         type |-> kind,
         link |-> OrElse(gr.html_url,
                         GithubUrl \o gr.owner \o <<"/">> \o gr.repo),
         isGithub |-> TRUE,
         direct |-> TRUE,
         version |-> clean_version(file.version),
         typecho |-> <<>>,
         author |-> OrElse(Strip(file.author), gr.owner),
         donate |-> donate,
         description |-> OrElse(gr.description, file.description),
         dir |-> OrElse(install_dir, gr.repo)]

\* ------------------------------------------------------------------------
\* The orchestrator: _search_repos, collect
\* ------------------------------------------------------------------------

MainBranch == <<"m","a","i","n">>

\* _search_repos on the items the search API returned: items without an owner
\* or a name are dropped, the others become GithubRepo values (file stands
\* for what the raw-content host serves for the repository's entry file)
search_repos(items) ==
    LET keep == SelectSeq(items,
                    LAMBDA it : Strip(it.owner) # <<>> /\ Strip(it.name) # <<>>)
    IN  [i \in 1..Len(keep) |->
            [owner |-> Strip(keep[i].owner),
             repo |-> Strip(keep[i].name),
             html_url |-> Strip(keep[i].html_url),
             description |-> Strip(keep[i].description),
             default_branch |->
                 OrElse(Strip(OrElse(keep[i].default_branch, MainBranch)),
                        MainBranch),
             homepage |-> Strip(keep[i].homepage),
             file |-> keep[i].file]]

\* _raw_get_text: "not_found" is the 404 that returns None, "error" any other
\* failure (raise_for_status, a timeout), "ok" a text
raw_get_text(gr) == gr.file.status

\* max(0, limit)
Cap(limit) == IF limit < 0 THEN 0 ELSE limit

\* if added >= limit: break
CapReached(added, limit) == added >= limit

\* a collect that never rejects a record for its dir
DirAcceptedAlways(proj) == TRUE

\* _is_valid_dir(str(proj.get("dir") or ""))
DirAccepted(proj) == is_valid_dir(GetStr(proj, "dir"))

RECURSIVE CollectLoop(_, _, _, _, _)
\* the for loop of collect from repository number i on; st holds what the
\* loop has built: projs (appended to discovered), added, fetched (the
\* positions whose entry file was requested), failed (an exception left
\* collect)
CollectLoop(kind, repos, limit, i, st) ==
    IF i > Len(repos) \/ CapReached(st.added, limit) THEN st
    ELSE
      LET gr == repos[i]
          got == [st EXCEPT !.fetched = @ \cup {i}]
      IN  IF raw_get_text(gr) = "error"
          THEN [got EXCEPT !.failed = TRUE]
          ELSE IF raw_get_text(gr) = "not_found"
          THEN CollectLoop(kind, repos, limit, i + 1, got)
          ELSE IF gr.file.raises
          THEN CollectLoop(kind, repos, limit, i + 1, got)
          ELSE
            LET proj == make_project(kind, gr, gr.file)
            IN  IF ~DirAccepted(proj)
                THEN CollectLoop(kind, repos, limit, i + 1, got)
                ELSE CollectLoop(kind, repos, limit, i + 1,
                         [got EXCEPT !.projs = Append(@, proj),
                                     !.added = @ + 1])

\* collect(kind, repos, limit)
collect(kind, repos, limit) ==
    CollectLoop(kind, repos, limit, 1,
                [projs |-> <<>>, added |-> 0, fetched |-> {}, failed |-> FALSE])

\* ------------------------------------------------------------------------
\* Inputs: catalogs on disk, incoming batches, search results
\* ------------------------------------------------------------------------

\* longest incoming batch handed to _merge_projects directly
MaxBatch == 2

\* longest list of items one search returns
MaxRepos == 2

RECURSIVE SeqsUpTo(_, _)
\* the sequences over S of length at most n
SeqsUpTo(S, n) ==
    IF n = 0 THEN {<<>>}
    ELSE LET shorter == SeqsUpTo(S, n - 1)
         IN  shorter \cup {Append(q, x) : q \in shorter, x \in S}

\* a record with every key present (the shape _make_project returns)
Project(id, link, dir, author, version) ==
    [id |-> id, name |-> <<"F","o","o">>, type |-> KindPlugin, link |-> link,
     isGithub |-> TRUE, direct |-> TRUE, version |-> version,
     typecho |-> <<>>, author |-> author, donate |-> <<>>,
     description |-> <<>>, dir |-> dir]

\* del r[k] for every k in keys
Without(r, keys) == [k \in DOMAIN r \ keys |-> r[k]]

IdFoo  == <<"p","-","f","o","o">>
IdFoo2 == <<"p","-","f","o","o","-","2">>
LinkA  == <<"a","/","F","o","o">>
LinkB  == <<"b","/","f","o","o">>
LinkC  == <<"c","/","b",".","c">>
LinkD  == <<"d","/","q">>

\* candidates handed to _merge_projects
CandA1 == Project(IdFoo, LinkA, <<"F","o","o">>, <<"B","o","b">>, <<"2">>)
CandA2 == Without(Project(<<>>, <<" ">> \o LinkA, <<"b",".","c">>, <<>>, <<>>),
                  {"isGithub", "direct"})
CandA3 == Project(<<"p","-","z">>, LinkA, <<>>, <<"C","y">>, <<"3">>)
CandB  == Project(IdFoo, LinkB, <<"B","a","r">>, <<"A","l">>, <<>>)
CandC  == Without(Project(<<>>, LinkC, <<"F","o","o">>, <<>>, <<"2">>), {"id"})
CandE  == Project(<<"p","-","x">>, <<" ", " ">>, <<"X">>, <<"E","d">>, <<"1">>)

Candidates == {CandA1, CandA2, CandA3, CandB, CandC, CandE}

Batches == SeqsUpTo(Candidates, MaxBatch)

\* records of the catalogs a merge starts from
RecA  == Without([Project(<<"x">>, LinkA, <<>>, <<>>, <<"1">>)
                    EXCEPT !["isGithub"] = FALSE], {"direct"})
RecA2 == Without(Project(<<"y">>, <<"\f">> \o LinkA, <<"o","l","d">>, <<>>, <<>>),
                 {"typecho", "isGithub"})
RecB  == Project(IdFoo, LinkB, <<"o","l","d">>, <<"A","l">>, <<>>)
RecD  == Project(IdFoo2, LinkD, <<"q">>, <<>>, <<"1">>)

\* catalogs with pairwise distinct non-empty ids
MergeCatalogs == { <<>>, <<RecA>>, <<RecB, RecD>>, <<RecA, RecA2>> }

\* what the raw-content host serves for an entry file
File(status, package, class_prefix, raises) ==
    [status |-> status, package |-> package, class_prefix |-> class_prefix,
     author |-> <<>>, version |-> <<"v","1",".","2">>, link |-> <<>>,
     description |-> <<>>, raises |-> raises]

\* one item of a search response
Item(owner, name, html_url, file) ==
    [owner |-> owner, name |-> name, html_url |-> html_url,
     description |-> <<>>, default_branch |-> <<>>, homepage |-> <<>>,
     file |-> file]

PlugOk      == Item(<<"a">>, <<"F","o","o">>, LinkA,
                    File("ok", <<"F","o","o">>, <<>>, FALSE))
PlugBadDir  == Item(<<"b">>, <<"_","x">>, <<"b","/","_","x">>,
                    File("ok", <<>>, <<>>, FALSE))
PlugMissing == Item(<<"c">>, <<"q">>, <<>>, File("not_found", <<>>, <<>>, FALSE))
PlugError   == Item(<<"c">>, <<"r">>, <<>>, File("error", <<>>, <<>>, FALSE))
PlugRaises  == Item(<<"c">>, <<"s">>, <<>>, File("ok", <<>>, <<>>, TRUE))

PluginItems == {PlugOk, PlugBadDir, PlugMissing, PlugError, PlugRaises}

ThemeOk      == Item(<<"b">>, <<"t","y","p","e","c","h","o","-","t","h","e",
                                 "m","e","-","f","o","o">>, LinkB,
                     File("ok", <<>>, <<"Q">>, FALSE))
ThemeNoOwner == Item(<<" ">>, <<"t">>, <<>>, File("ok", <<>>, <<>>, FALSE))

ThemeItems == {ThemeOk, ThemeNoOwner}

\* --plugins / --themes
ArgsSet == { [plugins |-> 1, themes |-> 1],
             [plugins |-> 2, themes |-> 0],
             [plugins |-> 0 - 1, themes |-> 2] }

RecOld == Project(<<"x">>, LinkA, <<"o","l","d">>, <<>>, <<>>)

\* catalogs on disk whose records all have a legal dir and distinct ids
MainCatalogs == { <<>>, <<RecOld>> }

\* ------------------------------------------------------------------------
\* State
\* ------------------------------------------------------------------------

VARIABLES
    pc,            \* where main is: idle, loaded, plugins_searched, searched,
                   \* plugins_collected, collected, merged, done, aborted
    catalog,       \* the projects list of repo.json on disk
    args,          \* --plugins and --themes
    projects,      \* the projects list main loaded
    plugin_repos,  \* result of the plugin search
    theme_repos,   \* result of the theme search
    discovered,    \* the records collect appended
    added,         \* how many records each collect call accepted
    fetched,       \* positions of the repositories whose entry file was requested
    merged,        \* result of _merge_projects
    failure,       \* the exception that ended main, "none" when there is none
    writes,        \* calls of _write_repo_json in this run
    torn           \* repo.json was truncated and not written to its end:
                   \* catalog holds the records that reached the file

vars == <<pc, catalog, args, projects, plugin_repos, theme_repos, discovered,
          added, fetched, merged, failure, writes, torn>>

NoArgs == [plugins |-> 0, themes |-> 0]
NoAdded == [plugin |-> 0, theme |-> 0]
NoFetched == [plugin |-> {}, theme |-> {}]

\* the locals of a run that has not started
Fresh ==
    /\ args = NoArgs
    /\ projects = <<>>
    /\ plugin_repos = <<>>
    /\ theme_repos = <<>>
    /\ discovered = <<>>
    /\ added = NoAdded
    /\ fetched = NoFetched
    /\ merged = <<>>
    /\ failure = "none"
    /\ writes = 0

Init ==
    /\ pc = "idle"
    /\ catalog \in MainCatalogs
    /\ torn = FALSE
    /\ Fresh

\* an exception leaves main
Abort(why) ==
    /\ pc' = "aborted"
    /\ failure' = why

\* main up to _load_repo_json: parse the arguments, read the catalog.
\* json.load raises on a file that was not written to its end; on a complete
\* file the load returns the list (the empty list when the file is missing
\* or its "projects" is not a list), or open, json.load or data.get raises
\* (no file descriptor left, no permission, a document that is not an
\* object) and the exception leaves main with the file as it is
Load ==
    /\ pc = "idle"
    /\ \E a \in ArgsSet : args' = a
    /\ \/ /\ ~torn
          /\ pc' = "loaded"
          /\ projects' = catalog
          /\ UNCHANGED failure
       \/ /\ Abort("load_error")
          /\ UNCHANGED projects
    /\ UNCHANGED <<catalog, plugin_repos, theme_repos, discovered, added,
                   fetched, merged, writes, torn>>

\* how a search call can end: a list of items, the 403 rate-limit response
\* (RuntimeError) or another HTTP error (raise_for_status)
SearchFailures == {"rate_limit", "http_error"}

\* plugin_repos = _search_repos(...)
SearchPlugins ==
    /\ pc = "loaded"
    /\ \/ \E items \in SeqsUpTo(PluginItems, MaxRepos) :
             /\ plugin_repos' = search_repos(items)
             /\ pc' = "plugins_searched"
             /\ UNCHANGED failure
       \/ \E why \in SearchFailures :
             /\ Abort(why)
             /\ UNCHANGED plugin_repos
    /\ UNCHANGED <<catalog, args, projects, theme_repos, discovered, added,
                   fetched, merged, writes, torn>>

\* theme_repos = _search_repos(...)
SearchThemes ==
    /\ pc = "plugins_searched"
    /\ \/ \E items \in SeqsUpTo(ThemeItems, MaxRepos) :
             /\ theme_repos' = search_repos(items)
             /\ pc' = "searched"
             /\ UNCHANGED failure
       \/ \E why \in SearchFailures :
             /\ Abort(why)
             /\ UNCHANGED theme_repos
    /\ UNCHANGED <<catalog, args, projects, plugin_repos, discovered, added,
                   fetched, merged, writes, torn>>

\* collect("plugin", plugin_repos, max(0, args.plugins))
CollectPlugins ==
    /\ pc = "searched"
    /\ LET r == collect(KindPlugin, plugin_repos, Cap(args.plugins))
       IN  /\ discovered' = discovered \o r.projs
           /\ added' = [added EXCEPT !.plugin = r.added]
           /\ fetched' = [fetched EXCEPT !.plugin = r.fetched]
           /\ IF r.failed
              THEN Abort("fetch_error")
              ELSE pc' = "plugins_collected" /\ UNCHANGED failure
    /\ UNCHANGED <<catalog, args, projects, plugin_repos, theme_repos, merged,
                   writes, torn>>

\* collect("theme", theme_repos, max(0, args.themes))
CollectThemes ==
    /\ pc = "plugins_collected"
    /\ LET r == collect(KindTheme, theme_repos, Cap(args.themes))
       IN  /\ discovered' = discovered \o r.projs
           /\ added' = [added EXCEPT !.theme = r.added]
           /\ fetched' = [fetched EXCEPT !.theme = r.fetched]
           /\ IF r.failed
              THEN Abort("fetch_error")
              ELSE pc' = "collected" /\ UNCHANGED failure
    /\ UNCHANGED <<catalog, args, projects, plugin_repos, theme_repos, merged,
                   writes, torn>>

\* what _merge_projects leaves in its first argument: out = list(existing)
\* copies the list, not the dicts, so the updates reach the records of
\* existing; the appended records are copies and leave incoming alone
existing_after(existing, out) == SubSeq(out, 1, Len(existing))

\* merged = _merge_projects(projects, discovered)
Merge ==
    /\ pc = "collected"
    /\ pc' = "merged"
    /\ merged' = merge_projects(projects, discovered)
    /\ projects' = existing_after(projects, merge_projects(projects, discovered))
    /\ UNCHANGED <<catalog, args, plugin_repos, theme_repos,
                   discovered, added, fetched, failure, writes, torn>>

\* a main that also saves the catalog as soon as the plugins are collected
WriteEager ==
    /\ pc \in {"plugins_collected", "merged"}
    /\ writes < 2
    /\ pc' = IF pc = "merged" THEN "done" ELSE pc
    /\ catalog' = merge_projects(projects, discovered)
    /\ writes' = writes + 1
    /\ UNCHANGED <<args, projects, plugin_repos, theme_repos, discovered,
                   added, fetched, merged, failure, torn>>

\* how main can end once the whole document is in the file: the write of the
\* final newline or the flush at close fails (the document is complete and
\* loadable without it), or one of the three print calls raises
LateFailures == {"write_error", "print_error"}

\* _write_repo_json(repo_json_path, data_out), the three prints and
\* return 0.  The file is opened with "w", which truncates it, and json.dump
\* writes it piece by piece: main returns with the whole list in the file,
\* or an exception leaves it with the whole list in the file, or before the
\* file is opened (makedirs, open), or after the truncation (an unencodable
\* character, an I/O error) with only the first k records in the file
Write ==
    /\ pc = "merged"
    /\ writes' = writes + 1
    /\ \/ /\ pc' = "done"
          /\ catalog' = merged
          /\ torn' = FALSE
          /\ UNCHANGED failure
       \/ \E why \in LateFailures :
             /\ Abort(why)
             /\ catalog' = merged
             /\ torn' = FALSE
       \/ /\ Abort("write_error")
          /\ UNCHANGED <<catalog, torn>>
       \/ \E k \in 0..Len(merged) :
             /\ Abort("write_error")
             /\ catalog' = SubSeq(merged, 1, k)
             /\ torn' = TRUE
    /\ UNCHANGED <<args, projects, plugin_repos, theme_repos, discovered,
                   added, fetched, merged>>

\* the process ends; the next run starts with nothing but the file
Exit ==
    /\ pc \in {"done", "aborted"}
    /\ pc' = "idle"
    /\ args' = NoArgs
    /\ projects' = <<>>
    /\ plugin_repos' = <<>>
    /\ theme_repos' = <<>>
    /\ discovered' = <<>>
    /\ added' = NoAdded
    /\ fetched' = NoFetched
    /\ merged' = <<>>
    /\ failure' = "none"
    /\ writes' = 0
    /\ UNCHANGED <<catalog, torn>>

Next ==
    \/ Load
    \/ SearchPlugins
    \/ SearchThemes
    \/ CollectPlugins
    \/ CollectThemes
    \/ Merge
    \/ Write
    \/ Exit

\* runs of main, one after the other
Spec == Init /\ [][Next]_vars

\* _merge_projects called on the list loaded from the catalog, with an
\* arbitrary batch
MergeCall ==
    /\ pc = "idle"
    /\ ~torn
    /\ pc' = "merged"
    /\ \E B \in Batches :
          /\ discovered' = B
          /\ merged' = merge_projects(catalog, B)
          /\ projects' = existing_after(catalog, merge_projects(catalog, B))
    /\ UNCHANGED <<catalog, args, plugin_repos, theme_repos, added, fetched,
                   failure, writes, torn>>

InitMerge ==
    /\ pc = "idle"
    /\ catalog \in MergeCatalogs
    /\ torn = FALSE
    /\ Fresh

NextMerge ==
    \/ MergeCall
    \/ Write
    \/ Exit

\* merges of arbitrary batches into the catalog, one after the other
SpecMerge == InitMerge /\ [][NextMerge]_vars

\* ------------------------------------------------------------------------
\* Properties of _merge_projects (checked under SpecMerge)
\* ------------------------------------------------------------------------

\* the canonical link of a record: its link, stripped
Link(r) == Strip(GetStr(r, "link"))

\* the n-th smallest element of a set of integers
Nth(S, n) == CHOOSE x \in S : Cardinality({y \in S : y < x}) = n - 1

\* the existing record a candidate link is resolved to: the last one with it
Target(cat, link) ==
    CHOOSE t \in 1..Len(cat) :
        /\ Truthy(cat[t], "link")
        /\ Link(cat[t]) = link
        /\ \A u \in 1..Len(cat) :
             (Truthy(cat[u], "link") /\ Link(cat[u]) = link) => u <= t

HasLink(cat, link) ==
    \E t \in 1..Len(cat) : Truthy(cat[t], "link") /\ Link(cat[t]) = link

\* a call of _merge_projects has returned and nothing is written yet: catalog
\* is the list the call was given, as it was before the call (projects, the
\* list itself, now holds the updated records)
Returned == pc = "merged"

IdsDistinct(cat) ==
    \A i, j \in 1..Len(cat) : i < j => GetStr(cat[i], "id") # GetStr(cat[j], "id")

\* C1: no two records of the catalog, or of the list a merge returns, have the
\* same id (the catalogs the merges start from have distinct non-empty ids)
C1_IdsUnique == IdsDistinct(catalog) /\ IdsDistinct(merged)

\* C2, as claimed: merging the same batch into the result of a merge returns
\* that result unchanged
C2_MergeIdempotent ==
    Returned => merge_projects(merged, discovered) = merged

\* the record with the two flags defaulted to true where they are absent
FlagsDefaulted(r) ==
    [k \in DOMAIN r \cup {"isGithub", "direct"} |->
        IF k \in DOMAIN r THEN r[k] ELSE TRUE]

\* C2, amended: merging the same batch again returns the same records in the
\* same order with the same ids and the same fields, except that a record
\* the first merge appended without isGithub or direct has that flag set to
\* true by the second merge
C2_MergeIdempotentUpToFlags ==
    Returned =>
      LET twice == merge_projects(merged, discovered)
      IN  /\ Len(twice) = Len(merged)
          /\ \A i \in 1..Len(merged) :
               twice[i] = IF i <= Len(catalog)
                          THEN merged[i]
                          ELSE FlagsDefaulted(merged[i])

\* a merge updated an existing record and appended a record that lacks a
\* flag, so that merging the batch again changes the result
C2_Witness ==
    /\ pc = "merged"
    /\ Len(discovered) = 2
    /\ HasLink(catalog, Link(discovered[1]))
    /\ Len(merged) = Len(catalog) + 1
    /\ ~Has(merged[Len(merged)], "isGithub")
    /\ merge_projects(merged, discovered) # merged

\* id and link untouched, flags kept when present and true when absent
IdLinkFlagsKept(before, after) ==
    /\ Has(after, "id") = Has(before, "id")
    /\ GetStr(after, "id") = GetStr(before, "id")
    /\ after["link"] = before["link"]
    /\ \A f \in {"isGithub", "direct"} :
         /\ Has(after, f)
         /\ after[f] = IF Has(before, f) THEN before[f] ELSE TRUE

\* C3, as claimed: for every candidate whose link an existing record has,
\* each fill-in field of that record is, after the merge, its old value when
\* that was non-blank and this candidate's value otherwise
C3_FillFromCandidate ==
    Returned =>
      \A j \in 1..Len(discovered) :
        (Link(discovered[j]) # <<>> /\ HasLink(catalog, Link(discovered[j]))) =>
          LET t == Target(catalog, Link(discovered[j]))
          IN  /\ \A n \in 1..Len(FillKeys) :
                   GetStr(merged[t], FillKeys[n]) =
                     IF Truthy(catalog[t], FillKeys[n])
                     THEN catalog[t][FillKeys[n]]
                     ELSE GetStr(discovered[j], FillKeys[n])
              /\ IdLinkFlagsKept(catalog[t], merged[t])

\* the value of key k of the first candidate of the batch with this link
\* whose value is non-blank; blank when there is none
FirstNonBlank(batch, link, k) ==
    LET js == {j \in 1..Len(batch) : Link(batch[j]) = link /\ Truthy(batch[j], k)}
    IN  IF js = {} THEN <<>> ELSE batch[Nth(js, 1)][k]

\* C3, amended: each fill-in field of an existing record whose link occurs in
\* the batch keeps its old value when that was non-blank, and otherwise takes
\* the first non-blank value among the batch's candidates with that link, in
\* batch order (it stays blank when there is none); id and link are
\* unchanged, isGithub and direct are kept when present and true when absent
C3_FillFromFirstNonBlank ==
    Returned =>
      \A j \in 1..Len(discovered) :
        (Link(discovered[j]) # <<>> /\ HasLink(catalog, Link(discovered[j]))) =>
          LET t == Target(catalog, Link(discovered[j]))
          IN  /\ \A n \in 1..Len(FillKeys) :
                   /\ GetStr(merged[t], FillKeys[n]) =
                        IF Truthy(catalog[t], FillKeys[n])
                        THEN catalog[t][FillKeys[n]]
                        ELSE FirstNonBlank(discovered, Link(discovered[j]),
                                           FillKeys[n])
                   /\ Has(catalog[t], FillKeys[n]) => Has(merged[t], FillKeys[n])
              /\ IdLinkFlagsKept(catalog[t], merged[t])

\* an existing record had a blank author filled, a set version kept although
\* the candidate brought another, isGithub kept false and direct defaulted
C3_Witness ==
    /\ pc = "merged"
    /\ Len(catalog) >= 1
    /\ Len(discovered) >= 1
    /\ Link(discovered[1]) = Link(catalog[1])
    /\ ~Truthy(catalog[1], "author") /\ Truthy(merged[1], "author")
    /\ Truthy(catalog[1], "version")
    /\ Truthy(discovered[1], "version")
    /\ discovered[1]["version"] # catalog[1]["version"]
    /\ merged[1]["version"] = catalog[1]["version"]
    /\ Has(catalog[1], "isGithub") /\ merged[1]["isGithub"] = FALSE
    /\ ~Has(catalog[1], "direct") /\ merged[1]["direct"] = TRUE

\* the stripped links the existing records are filed under
ExistingLinks(cat) ==
    {Link(cat[t]) : t \in {u \in 1..Len(cat) : Truthy(cat[u], "link")}}

\* positions of the batch that bring a link for the first time: non-empty,
\* in no existing record, in no earlier candidate
FirstOccurrences(cat, batch) ==
    {j \in 1..Len(batch) :
        /\ Link(batch[j]) # <<>>
        /\ Link(batch[j]) \notin ExistingLinks(cat)
        /\ \A i \in 1..(j - 1) : Link(batch[i]) # Link(batch[j])}

\* C4: the list returned is the existing records, in their order, followed by
\* one new record for each distinct non-empty stripped link of the batch that
\* no existing record has, in the order of first occurrence
C4_DedupByLink ==
    Returned =>
      LET new == FirstOccurrences(catalog, discovered)
      IN  /\ Len(merged) = Len(catalog) + Cardinality(new)
          /\ \A i \in 1..Len(catalog) :
               /\ GetStr(merged[i], "id") = GetStr(catalog[i], "id")
               /\ merged[i]["link"] = catalog[i]["link"]
          /\ \A n \in 1..Cardinality(new) :
               merged[Len(catalog) + n]["link"] = discovered[Nth(new, n)]["link"]

\* two candidates with the same new link gave one appended record
C4_Witness ==
    /\ pc = "merged"
    /\ Len(catalog) = 2
    /\ Len(discovered) = 2
    /\ Link(discovered[1]) = Link(discovered[2])
    /\ discovered[1]["link"] # discovered[2]["link"]
    /\ Len(merged) = 3
    /\ merged[3]["link"] = discovered[1]["link"]

\* the ids the catalog already uses when record number m is appended
IdsBefore(m) == {GetStr(merged[i], "id") : i \in 1..(m - 1)}

\* C9: a candidate with a new link and id B is appended with id B when no
\* record of the catalog has id B, and otherwise with B-k for the smallest
\* k >= 2 such that no record has id B-k
C9_IdAssigned ==
    Returned =>
      LET new == FirstOccurrences(catalog, discovered)
      IN  \A n \in 1..Cardinality(new) :
            LET m == Len(catalog) + n
                B == GetStr(discovered[Nth(new, n)], "id")
                got == GetStr(merged[m], "id")
            IN  IF B \notin IdsBefore(m)
                THEN got = B
                ELSE \E k \in 2..(m + 1) :
                       /\ got = B \o <<"-">> \o Decimal(k)
                       /\ got \notin IdsBefore(m)
                       /\ \A h \in 2..(k - 1) :
                            (B \o <<"-">> \o Decimal(h)) \in IdsBefore(m)

\* the dir the claim gives the record after one candidate is processed
DirExpected(cur, inc) ==
    IF /\ GetStr(inc, "dir") # <<>>
       /\ \/ GetStr(cur, "dir") = <<>>
          \/ GetStr(cur, "dir") = LastSegment(cur["link"])
          \/ (GetStr(inc, "dir") # GetStr(cur, "dir") /\ is_valid_dir(inc["dir"]))
    THEN inc["dir"]
    ELSE GetStr(cur, "dir")

\* C10: when candidate number j has the link of a record of the catalog as it
\* is when the candidate is reached, that record's dir afterwards is the
\* incoming dir if that is non-empty and the old dir is empty, is the last
\* segment of the record's link, or differs from a legal incoming dir; in
\* every other case the dir is unchanged.  The catalog after j candidates is
\* the merge of the first j candidates.
C10_DirCorrection ==
    Returned =>
      /\ merged = merge_projects(catalog, discovered)
      /\ \A j \in 1..Len(discovered) :
           LET before == merge_projects(catalog, SubSeq(discovered, 1, j - 1))
               after == merge_projects(catalog, SubSeq(discovered, 1, j))
               link == Link(discovered[j])
           IN  (link # <<>> /\ HasLink(before, link)) =>
                 LET t == Target(before, link)
                 IN  /\ GetStr(after[t], "dir") = DirExpected(before[t], discovered[j])
                     /\ Has(before[t], "dir") => Has(after[t], "dir")

\* an old dir was replaced by a legal one, and that one, being the last
\* segment of the link, by an illegal one
C10_Witness ==
    /\ pc = "merged"
    /\ Len(catalog) = 2
    /\ Len(discovered) = 2
    /\ Link(discovered[1]) = Link(catalog[2])
    /\ Link(discovered[2]) = Link(catalog[2])
    /\ Truthy(catalog[2], "dir")
    /\ catalog[2]["dir"] # LastSegment(catalog[2]["link"])
    /\ is_valid_dir(discovered[1]["dir"])
    /\ ~is_valid_dir(discovered[2]["dir"])
    /\ merged[2]["dir"] = discovered[2]["dir"]

\* ------------------------------------------------------------------------
\* Properties of main and collect (checked under Spec)
\* ------------------------------------------------------------------------

\* C5: no run of main ends because the entry file of one candidate could not
\* be fetched: such a candidate is skipped and the run goes on
C5_CandidateErrorsSkipped == pc = "aborted" => failure # "fetch_error"

\* C6: _write_repo_json is called at most once in a run, and only when both
\* searches, both collect calls and the merge have completed, with the
\* result of merging everything collected into the catalog the run loaded;
\* no other step changes the file, so that a run that aborts before the
\* write leaves the catalog on disk as it was when the run started
C6_WriteOnceAfterMerge ==
    [][ /\ writes' <= 1
        /\ (writes' > writes \/ catalog' # catalog \/ torn' # torn) =>
             /\ pc = "merged"
             /\ writes = 0 /\ writes' = 1
             /\ added.plugin + added.theme = Len(discovered)
             /\ merged = merge_projects(catalog, discovered)
        /\ (pc' = "done" /\ pc # "done") => (catalog' = merged /\ ~torn')
        /\ (catalog' # catalog /\ ~torn') => catalog' = merged
      ]_vars

\* a run aborted on a fetch error after a candidate was accepted, over a
\* catalog that holds a record: nothing was written
C6_Witness ==
    /\ pc = "aborted"
    /\ failure = "fetch_error"
    /\ discovered # <<>>
    /\ projects # <<>>
    /\ catalog = projects
    /\ writes = 0

\* a candidate collect accepts: entry file found, build succeeds, dir legal
Acceptable(kind, gr) ==
    /\ gr.file.status = "ok"
    /\ ~gr.file.raises
    /\ is_valid_dir(make_project(kind, gr, gr.file)["dir"])

AcceptableAt(kind, repos) == {i \in 1..Len(repos) : Acceptable(kind, repos[i])}

\* the records of the first n acceptable candidates, in search order
FirstAccepted(kind, repos, n) ==
    LET acc == AcceptableAt(kind, repos)
        m == IF n < Cardinality(acc) THEN n ELSE Cardinality(acc)
    IN  [h \in 1..m |-> make_project(kind, repos[Nth(acc, h)], repos[Nth(acc, h)].file)]

\* no entry file is requested once n candidates before it were acceptable
FetchedWithinCap(kind, repos, n, requested) ==
    \A i \in requested :
        Cardinality({a \in AcceptableAt(kind, repos) : a < i}) < n

NonNegative(n) == IF n > 0 THEN n ELSE 0

\* the collect call of the plugins has ended, by returning or by the
\* exception of a fetch (main then stops, with or without a later failure)
PluginCollectEnded ==
    \/ pc \in {"plugins_collected", "collected", "merged", "done"}
    \/ pc = "aborted" /\ failure \in {"fetch_error", "write_error", "print_error"}

\* the collect call of the themes has ended
ThemeCollectEnded ==
    \/ pc \in {"collected", "merged", "done"}
    \/ pc = "aborted" /\ failure \in {"write_error", "print_error"}
    \/ /\ pc = "aborted" /\ failure = "fetch_error"
       /\ \E i \in fetched.theme : raw_get_text(theme_repos[i]) = "error"

\* C7: for each category the records collected are those of the first
\* min(N, number of acceptable candidates) acceptable candidates in search
\* order (a candidate is acceptable when its entry file is found, its build
\* succeeds and its dir is legal), never more than N, and no entry file is
\* requested once N candidates have been accepted
C7_PerCategoryCap ==
    LET np == NonNegative(args.plugins)
        nt == NonNegative(args.themes)
    IN  /\ added.plugin <= np /\ added.theme <= nt
        /\ FetchedWithinCap(KindPlugin, plugin_repos, np, fetched.plugin)
        /\ FetchedWithinCap(KindTheme, theme_repos, nt, fetched.theme)
        /\ PluginCollectEnded =>
             SubSeq(discovered, 1, added.plugin)
               = FirstAccepted(KindPlugin, plugin_repos, np)
        /\ ThemeCollectEnded =>
             SubSeq(discovered, added.plugin + 1, Len(discovered))
               = FirstAccepted(KindTheme, theme_repos, nt)

\* the part of C7 that the code keeps: whenever a collect call returns, the
\* records it collected are those of the first min(N, number of acceptable
\* candidates) acceptable candidates; the cap and the fetches are bounded in
\* every state
CapWhenCollectReturns ==
    LET np == NonNegative(args.plugins)
        nt == NonNegative(args.themes)
    IN  /\ added.plugin <= np /\ added.theme <= nt
        /\ FetchedWithinCap(KindPlugin, plugin_repos, np, fetched.plugin)
        /\ FetchedWithinCap(KindTheme, theme_repos, nt, fetched.theme)
        /\ pc \in {"plugins_collected", "collected", "merged", "done"} =>
             SubSeq(discovered, 1, added.plugin)
               = FirstAccepted(KindPlugin, plugin_repos, np)
        /\ pc \in {"collected", "merged", "done"} =>
             SubSeq(discovered, added.plugin + 1, Len(discovered))
               = FirstAccepted(KindTheme, theme_repos, nt)

AllDirsValid(cat) ==
    \A i \in 1..Len(cat) : Has(cat[i], "dir") /\ is_valid_dir(cat[i]["dir"])

\* C8: every record of the catalog on disk, and of the list a merge returns,
\* has a non-empty legal dir (the catalogs the runs start from do)
C8_DirsValid == AllDirsValid(catalog) /\ AllDirsValid(merged)

\* a run that met a candidate with an illegal dir wrote a catalog in which an
\* existing record had its dir corrected and a new record was appended
C8_Witness ==
    /\ pc = "done"
    /\ \E i \in 1..Len(plugin_repos) :
         /\ i \in fetched.plugin
         /\ plugin_repos[i].file.status = "ok"
         /\ ~plugin_repos[i].file.raises
         /\ ~is_valid_dir(make_project(KindPlugin, plugin_repos[i],
                                       plugin_repos[i].file)["dir"])
    /\ ~torn
    /\ Len(catalog) = 2
    /\ catalog[1]["id"] = RecOld["id"]
    /\ catalog[1]["dir"] # RecOld["dir"]

====
